---------------------------- MODULE Spec2Model ----------------------------
(***************************************************************************)
(* Model of the Cream supernet example:                                    *)
(*   - CreamSupernetTrainingMutator (nni/nas/pytorch/cream/mutator.py):    *)
(*     the candidate sampler, get_prob / sample_search / sample_final;     *)
(*   - create_optimizer_supernet and main (examples/nas/cream/test.py):    *)
(*     the optimizer factory and the evaluation driver.                    *)
(*                                                                         *)
(* Probabilities are exact rationals in units of 1/Unit, so "sums to 1"    *)
(* is "sums to Unit".  The process-wide random generator is a source of    *)
(* words; a call that draws has one outcome for each sequence of words the *)
(* generator can hand it.                                                  *)
(***************************************************************************)
EXTENDS Integers, Sequences, FiniteSets, TLC

\* ------------------------------------------------------------- bounds
MaxChoice == 2      \* largest CHOICE_NUM
MaxStages == 2      \* largest len(sta_num)
MaxSlots  == 3      \* largest total number of slots, sum(sta_num)
Unit      == 2      \* probabilities are multiples of 1/Unit
MaxDraws  == 4      \* words the generator hands out in one run

RECURSIVE Sum(_)
Sum(s) == IF s = <<>> THEN 0 ELSE Head(s) + Sum(Tail(s))

SeqsUpTo(S, n) == UNION {[1..k -> S] : k \in 0..n}

\* ------------------------------------------------------------- python values
\* An optional value: None, or a tuple.
None == [is_none |-> TRUE, v |-> <<>>]
Some(t) == [is_none |-> FALSE, v |-> t]

\* An outcome of a call: it returns ret, or raises exc (exc = "None": no
\* exception), having consumed the words `used` of the generator.
Return(r, used) == [exc |-> "None", ret |-> r, used |-> used]
Raise(e) == [exc |-> e, ret |-> <<>>, used |-> <<>>]

VARIABLES
    self,        \* the sampler object: how_to_prob, pre_prob, CHOICE_NUM, sta_num
    result,      \* the last sampler call: which entry point, what it returned or raised
    tape,        \* the words of the generator that call consumed
    rng_draws,   \* words consumed from the process-wide generator so far
    opt_args,    \* create_optimizer_supernet: the arguments and the environment
    opt_result,  \* create_optimizer_supernet: what the call returned or raised
    drv,         \* the evaluation driver (main): arguments, file system, progress
    mem          \* the objects of the interpreter: the lists and tuples, who refers to them

vars == <<self, result, tape, rng_draws, opt_args, opt_result, drv, mem>>
samplerVars == <<self, result, tape, rng_draws>>
optVars == <<opt_args, opt_result>>

\* ------------------------------------------------------------- sampler
\* __init__: stores its four arguments, validates nothing.
CreamSupernetTrainingMutator(how_to_prob, pre_prob, CHOICE_NUM, sta_num) ==
    [how_to_prob |-> how_to_prob, pre_prob |-> pre_prob,
     CHOICE_NUM |-> CHOICE_NUM, sta_num |-> sta_num]

get_prob_weighted_default(s) ==
    IF s.how_to_prob = "even" THEN Return(None, <<>>)
    ELSE IF s.how_to_prob = "pre_prob" THEN Return(s.pre_prob, <<>>)
    ELSE Return(None, <<>>)

get_prob_ignores_weights(s) ==
    IF s.how_to_prob = "even" THEN Return(None, <<>>)
    ELSE IF s.how_to_prob = "pre_prob" THEN Return(None, <<>>)
    ELSE Raise("ValueError")

get_prob(s) ==
    IF s.how_to_prob = "even" THEN Return(None, <<>>)
    ELSE IF s.how_to_prob = "pre_prob" THEN Return(s.pre_prob, <<>>)
    ELSE Raise("ValueError")

\* cdf = p.cumsum(), in units of 1/Unit.
RECURSIVE cumsum(_)
cumsum(p) ==
    IF p = <<>> THEN <<>>
    ELSE LET front == cumsum(SubSeq(p, 1, Len(p) - 1))
         IN  Append(front, Sum(p))

\* cdf.searchsorted(u, side='right') for u in [w/Unit, (w+1)/Unit): the number of
\* entries of cdf that are <= u.
searchsorted_right(cdf, w) == Cardinality({i \in 1..Len(cdf) : cdf[i] <= w})

\* numpy.random.choice(a, size, p) for an int a >= 1: its outcomes.  p is validated
\* before anything is drawn.  Without p the words are randint(0, a, size), the
\* indices themselves; with p they are random_sample(size), in units of 1/Unit.
np_random_choice(a, size, p) ==
    IF p.is_none
    THEN {Return(w, w) : w \in [1..size -> 0..(a - 1)]}
    ELSE IF Len(p.v) # a THEN {Raise("ValueError")}
    ELSE IF \E i \in 1..Len(p.v) : p.v[i] < 0 THEN {Raise("ValueError")}
    ELSE IF Sum(p.v) # Unit THEN {Raise("ValueError")}
    ELSE LET cdf == cumsum(p.v)
         IN  {Return([i \in 1..size |-> searchsorted_right(cdf, w[i])], w) :
                 w \in [1..size -> 0..(Unit - 1)]}

\* One element of the list comprehension: np.random.choice(self.CHOICE_NUM, item[, prob]).
draw_stage_wide(s, prob, item) == np_random_choice(s.CHOICE_NUM + 1, item, prob)

draw_stage(s, prob, item) == np_random_choice(s.CHOICE_NUM, item, prob)

\* [np.random.choice(...).tolist() for item in self.sta_num], from stage i on: a
\* stage that raises ends the comprehension.
RECURSIVE list_comprehension(_, _, _)
list_comprehension(s, prob, i) ==
    IF i > Len(s.sta_num) THEN {Return(<<>>, <<>>)}
    ELSE LET stages == draw_stage(s, prob, s.sta_num[i])
             rests == list_comprehension(s, prob, i + 1)
         IN  UNION {IF stage.exc # "None" THEN {stage}
                    ELSE {IF rest.exc # "None"
                          THEN [rest EXCEPT !.used = stage.used \o rest.used]
                          ELSE Return(<<stage.ret>> \o rest.ret, stage.used \o rest.used) :
                             rest \in rests} :
                       stage \in stages}

\* get_random_cand.insert(0, [0]); get_random_cand.append([0])
insert_sentinels_no_append(cand) == <<(<<0>>)>> \o cand

insert_sentinels(cand) == <<(<<0>>)>> \o cand \o <<(<<0>>)>>

\* The outcomes of sample_search.
sample_search_outcomes(s) ==
    LET prob == get_prob(s)
    IN  IF prob.exc # "None" THEN {prob}
        ELSE {IF cand.exc # "None" THEN cand
              ELSE [cand EXCEPT !.ret = insert_sentinels(cand.ret)] :
                 cand \in list_comprehension(s, prob.ret, 1)}

sample_final_own_policy(s) ==
    {Return(insert_sentinels([i \in 1..Len(s.sta_num) |-> [j \in 1..s.sta_num[i] |-> 0]]),
            <<>>)}

\* sample_final: return self.sample_search()
sample_final_outcomes(s) == sample_search_outcomes(s)

\* The attributes of self after a call: get_prob, sample_search and sample_final
\* assign none of them.
attrs_after_call_policy_reset(s) == [s EXCEPT !.how_to_prob = "even"]

attrs_after_call(s) == s

\* A call with outcome `out`.
Call(op, out) ==
    /\ rng_draws + Len(out.used) <= MaxDraws
    /\ result' = [op |-> op, exc |-> out.exc, ret |-> out.ret]
    /\ tape' = out.used
    /\ rng_draws' = rng_draws + Len(out.used)
    /\ self' = attrs_after_call(self)

sample_search ==
    /\ \E out \in sample_search_outcomes(self) : Call("sample_search", out)
    /\ UNCHANGED <<optVars, drv, mem>>

sample_final ==
    /\ \E out \in sample_final_outcomes(self) : Call("sample_final", out)
    /\ UNCHANGED <<optVars, drv, mem>>

\* ------------------------------------------------------------- strings
\* A str is the sequence of its characters.
UpperToLower ==
    "A" :> "a" @@
    "D" :> "d" @@
    "G" :> "g" @@
    "M" :> "m" @@
    "S" :> "s"

\* str.lower()
lower(str) ==
    [i \in 1..Len(str) |-> IF str[i] \in DOMAIN UpperToLower THEN UpperToLower[str[i]]
                           ELSE str[i]]

\* sub in str
contains(sub, str) ==
    \E i \in 1..(Len(str) - Len(sub) + 1) : SubSeq(str, i, i + Len(sub) - 1) = sub

\* str.split(sep) for a one-character sep: '' splits to [''], 'a_' to ['a', ''].
RECURSIVE split(_, _)
split(str, sep) ==
    IF \A i \in 1..Len(str) : str[i] # sep THEN <<str>>
    ELSE LET k == CHOOSE i \in 1..Len(str) :
                      str[i] = sep /\ \A j \in 1..(i - 1) : str[j] # sep
         IN  <<SubSeq(str, 1, k - 1)>> \o split(SubSeq(str, k + 1, Len(str)), sep)

\* ------------------------------------------------------------- optimizer factory
NoOptimizer == [kind |-> "none", nesterov |-> FALSE, weight_decay |-> 0,
                parameters |-> "none"]

\* optim.SGD(parameters, momentum=args.momentum, weight_decay=..., nesterov=...)
SGD(parameters, weight_decay, nesterov) ==
    [kind |-> "SGD", nesterov |-> nesterov, weight_decay |-> weight_decay,
     parameters |-> parameters]

\* optim.Adam(parameters, weight_decay=..., eps=args.opt_eps)
Adam(parameters, weight_decay) ==
    [kind |-> "Adam", nesterov |-> FALSE, weight_decay |-> weight_decay,
     parameters |-> parameters]

OptReturn(o) == [called |-> TRUE, exc |-> "None", ret |-> o]
OptRaise(e) == [called |-> TRUE, exc |-> e, ret |-> NoOptimizer]

\* The else branch of the dispatch: `assert False and "Invalid optimizer"`, then
\* `raise ValueError`.  The assert fails first unless the interpreter runs with -O.
invalid_optimizer(a) ==
    IF a.assertions THEN OptRaise("AssertionError") ELSE OptRaise("ValueError")

\* create_optimizer_supernet(args, model, filter_bias_and_bn); a.weight_decay and
\* a.lr are integers, the true division keeps a.weight_decay a multiple of a.lr.
create_optimizer_supernet(a) ==
    LET opt_lower == lower(a.opt)
        scaled == contains(<<"a", "d", "a", "m", "w">>, opt_lower) \/ contains(<<"r", "a", "d", "a", "m">>, opt_lower)
    IN  IF scaled /\ a.lr = 0 THEN OptRaise("ZeroDivisionError")
        ELSE
        LET wd0 == IF scaled THEN a.weight_decay \div a.lr ELSE a.weight_decay
            grouped == wd0 # 0 /\ a.filter_bias_and_bn
            parameters == IF grouped THEN "add_weight_decay_supernet" ELSE "model.parameters"
            weight_decay == IF grouped THEN 0 ELSE wd0
            opt_split == split(opt_lower, "_")
            last == opt_split[Len(opt_split)]
        IN  IF /\ contains(<<"f", "u", "s", "e", "d">>, opt_lower)
               /\ a.assertions
               /\ ~(a.has_apex /\ a.cuda_available)
            THEN OptRaise("AssertionError")
            ELSE IF last = <<"s", "g", "d">> \/ last = <<"n", "e", "s", "t", "e", "r", "o", "v">>
                 THEN OptReturn(SGD(parameters, weight_decay, TRUE))
            ELSE IF last = <<"m", "o", "m", "e", "n", "t", "u", "m">>
                 THEN OptReturn(SGD(parameters, weight_decay, FALSE))
            ELSE IF last = <<"a", "d", "a", "m">>
                 THEN OptReturn(Adam(parameters, weight_decay))
            ELSE invalid_optimizer(a)

OptNames ==
    {<<"s", "g", "d">>,
     <<"S", "G", "D">>,
     <<"n", "e", "s", "t", "e", "r", "o", "v">>,
     <<"m", "o", "m", "e", "n", "t", "u", "m">>,
     <<"a", "d", "a", "m">>,
     <<"f", "u", "s", "e", "d", "_", "s", "g", "d">>,
     <<"f", "u", "s", "e", "d", "a", "d", "a", "m">>,
     <<"a", "d", "a", "m", "w">>,
     <<"r", "a", "d", "a", "m", "_", "a", "d", "a", "m">>,
     <<"l", "o", "o", "k", "a", "h", "e", "a", "d", "_", "a", "d", "a", "m">>,
     <<"r", "m", "s", "p", "r", "o", "p">>,
     <<"s", "g", "d", "_">>}

OptArgs ==
    [opt : OptNames, weight_decay : {0, 2}, lr : {0, 1, 2},
     filter_bias_and_bn : BOOLEAN,
     has_apex : BOOLEAN, cuda_available : BOOLEAN, assertions : BOOLEAN]

NotCalled == [called |-> FALSE, exc |-> "None", ret |-> NoOptimizer]

call_create_optimizer_supernet ==
    /\ ~opt_result.called
    /\ opt_result' = create_optimizer_supernet(opt_args)
    /\ UNCHANGED <<opt_args, samplerVars, drv, mem>>

InitOptimizer ==
    /\ opt_args \in OptArgs
    /\ opt_result = NotCalled

\* ------------------------------------------------------------- evaluation driver
MaxWorld   == 2     \* largest WORLD_SIZE
MaxBatches == 2     \* largest number of batches of loader_eval

\* The architecture table of main: model_selection -> arch_list, the number of
\* layer strings of each stage of arch_def, and args.img_size.
ArchTable ==
    470 :> [arch_list |-> <<<<0>>, <<3, 4, 3, 1>>, <<3, 2, 3, 0>>, <<3, 3, 3, 1>>, <<3, 3, 3, 3>>, <<3, 3, 3, 3>>, <<0>>>>,
           arch_def_len |-> <<1, 4, 4, 4, 4, 4, 1>>, img_size |-> 224] @@
    42 :> [arch_list |-> <<<<0>>, <<3>>, <<3, 1>>, <<3, 1>>, <<3, 3, 3>>, <<3, 3>>, <<0>>>>,
           arch_def_len |-> <<1, 1, 2, 2, 3, 2, 1>>, img_size |-> 96] @@
    14 :> [arch_list |-> <<<<0>>, <<3>>, <<3, 3>>, <<3, 3>>, <<3>>, <<3>>, <<0>>>>,
           arch_def_len |-> <<1, 1, 2, 2, 1, 1, 1>>, img_size |-> 64] @@
    112 :> [arch_list |-> <<<<0>>, <<3>>, <<3, 3>>, <<3, 3>>, <<3, 3, 3>>, <<3, 3>>, <<0>>>>,
           arch_def_len |-> <<1, 1, 2, 2, 3, 2, 1>>, img_size |-> 160] @@
    285 :> [arch_list |-> <<<<0>>, <<3>>, <<3, 3>>, <<3, 1, 3>>, <<3, 3, 3, 3>>, <<3, 3, 3>>, <<0>>>>,
           arch_def_len |-> <<1, 1, 2, 3, 4, 3, 1>>, img_size |-> 224] @@
    600 :> [arch_list |-> <<<<0>>, <<3, 3, 2, 3, 3>>, <<3, 2, 3, 2, 3>>, <<3, 2, 3, 2, 3>>, <<3, 3, 2, 2, 3, 3>>, <<3, 3, 2, 3, 3, 3>>, <<0>>>>,
           arch_def_len |-> <<1, 5, 5, 5, 6, 6, 1>>, img_size |-> 224]

\* A model_selection outside the table, beside those in it.
Selections == DOMAIN ArchTable \cup {7}

\* What a path names in the file system.
Paths == {"absent", "file", "dir"}

\* (prec1, prec5) of one batch on one rank, in units of 100%: top-5 hits include
\* the top-1 hits.
Precs == {<<0, 0>>, <<0, 1>>, <<1, 1>>}

\* accuracy(logits, y, topk=(1, 5)) when the batch has the hits prec.  A tensor
\* holds its value in units of 100% / scale, so that dividing a sum over scale
\* ranks by scale is exact.
accuracy(prec, scale) == <<prec[1] * scale, prec[2] * scale>>

NoArch == [arch_list |-> <<>>, arch_def_len |-> <<>>, img_size |-> 0]

\* AverageMeter(): sum and count; avg = sum / count.
AverageMeter == [sum |-> 0, count |-> 0]

\* AverageMeter.update(val, n)
update(m, val, n) == [sum |-> m.sum + val * n, count |-> m.count + n]

\* One process of the launch.  exit_code -1: still running.  calls: the all_reduce
\* calls this rank has entered; sent: the tensors of its last two calls (no rank is
\* more than one call ahead of another).  acc: what accuracy returned in this
\* iteration; tensor: the arguments of its two reduce_tensor calls; both until the
\* name is rebound to what reduce_tensor returns.
RankStart ==
    [pc |-> "start", distributed |-> FALSE, world_size |-> 1, arch |-> NoArch,
     model |-> FALSE, errors |-> 0, exit_code |-> 0 - 1, step |-> 0, forwards |-> 0,
     acc |-> <<0, 0>>, tensor |-> <<0, 0>>,
     prec1 |-> 0, prec5 |-> 0, calls |-> 0, sent |-> <<0, 0>>, prec1_m |-> AverageMeter,
     prec5_m |-> AverageMeter, logged |-> FALSE]

\* The processes of a launch: WORLD_SIZE of them, one when it is unset (0).
NProc(world) == IF world > 1 THEN world ELSE 1

InitDriver ==
    drv \in {[tiny |-> ti, model_selection |-> ms, train |-> tr, val |-> va,
              world |-> w, n_batches |-> nb,
              ranks |-> [r \in 0..(NProc(w) - 1) |-> RankStart]] :
                 ti \in BOOLEAN, ms \in Selections, tr \in Paths, va \in Paths,
                 w \in 0..MaxWorld, nb \in 0..MaxBatches}

Ranks == DOMAIN drv.ranks

SetRank(r, k) ==
    /\ drv' = [drv EXCEPT !.ranks[r] = k]
    /\ UNCHANGED <<samplerVars, optVars, mem>>

\* An uncaught exception: traceback, exit code 1.
crashed(k) == [k EXCEPT !.pc = "crash", !.exit_code = 1]

\* logger.error(...); exit(1)
error_exit(k) == [k EXCEPT !.pc = "exit", !.errors = @ + 1, !.exit_code = 1]

\* args.distributed, init_process_group, args.world_size
setup_distributed(r) ==
    LET k == drv.ranks[r]
        distributed == drv.world > 1
    IN  /\ k.pc = "start"
        /\ SetRank(r, [k EXCEPT !.pc = "select", !.distributed = distributed,
                                !.world_size = IF distributed THEN drv.world ELSE 1])

\* The if/elif chain on args.model_selection, then _gen_childnet(arch_list, arch_def):
\* outside the table arch_list is unbound there.
select_model_default_entry(r) ==
    LET k == drv.ranks[r]
        entry == IF drv.model_selection \in DOMAIN ArchTable
                 THEN drv.model_selection ELSE 14
    IN  /\ k.pc = "select"
        /\ SetRank(r, [k EXCEPT !.pc = "data", !.model = TRUE, !.arch = ArchTable[entry]])

select_model(r) ==
    LET k == drv.ranks[r]
    IN  /\ k.pc = "select"
        /\ IF drv.model_selection \in DOMAIN ArchTable
           THEN SetRank(r, [k EXCEPT !.pc = "data", !.model = TRUE,
                                     !.arch = ArchTable[drv.model_selection]])
           ELSE SetRank(r, crashed(k))

\* dataset.tiny_imagenet.get_newimagenet(args.data, args.batch_size): TRUE when it
\* returns the loaders.  A missing dataset directory is logged and ends the
\* process with exit code 1.
get_newimagenet(train, val) == train = "dir" /\ val = "dir"

\* os.path.exists(train_dir)
train_dir_exists_always(train) == TRUE

train_dir_exists(train) == train # "absent"

\* os.path.isdir(eval_dir)
eval_dir_isdir(val) == val = "dir"

\* The dataset section of main: TRUE when loader_eval is built, FALSE when the
\* process logs an error and exits with code 1.
load_data(tiny, train, val) ==
    IF tiny THEN get_newimagenet(train, val)
    ELSE IF ~train_dir_exists(train) THEN FALSE
    ELSE IF ~eval_dir_isdir(val) THEN FALSE
    ELSE TRUE

dataset_section(r) ==
    LET k == drv.ranks[r]
    IN  /\ k.pc = "data"
        /\ IF load_data(drv.tiny, drv.train, drv.val)
           THEN SetRank(r, [k EXCEPT !.pc = "eval"])
           ELSE SetRank(r, error_exit(k))

\* dist.all_reduce(rt, op=SUM) entered: without a process group it raises.
all_reduce_enter(k, value, pc) ==
    IF k.distributed
    THEN [k EXCEPT !.pc = pc, !.calls = @ + 1, !.sent = <<k.sent[2], value>>]
    ELSE crashed(k)

\* The collective call number n has every rank's tensor.
all_reduce_ready(n) == \A q \in Ranks : drv.ranks[q].calls >= n

\* rt after the collective call number n: the sum over the ranks.
all_reduce_sum(n) ==
    LET RECURSIVE total(_)
        total(q) ==
            IF q \notin Ranks THEN 0
            ELSE drv.ranks[q].sent[IF drv.ranks[q].calls = n THEN 2 ELSE 1] + total(q + 1)
    IN  total(0)

\* reduce_tensor as far as all_reduce: rt = tensor.clone(); dist.all_reduce(rt, SUM).
\* The argument (number i of the iteration) is kept as it is: rt is another tensor.
reduce_tensor_call(k, i, tensor, pc) ==
    all_reduce_enter([k EXCEPT !.tensor[i] = tensor], tensor, pc)

\* reduce_tensor (call number i of the iteration) after all_reduce: rt /= n;
\* return rt.  tensor: its argument when it returns.
reduce_tensor_return(k, i, n) ==
    [rt |-> all_reduce_sum(k.calls) \div n, tensor |-> k.tensor[i]]

\* One iteration of the loop up to the first collective: logits, accuracy, and
\* reduce_tensor(prec1, world_size) as far as all_reduce.
eval_forward(r) ==
    LET k == drv.ranks[r]
    IN  /\ k.pc = "eval" /\ k.step < drv.n_batches
        /\ \E prec \in Precs :
              LET got == accuracy(prec, NProc(drv.world))
              IN  SetRank(r, reduce_tensor_call(
                                 [k EXCEPT !.forwards = @ + 1, !.acc = got,
                                           !.prec1 = got[1], !.prec5 = got[2]],
                                 1, got[1], "reduce1"))

\* prec1 = reduce_tensor(prec1, ...) returns; reduce_tensor(prec5, ...) enters all_reduce.
reduce_prec1(r) ==
    LET k == drv.ranks[r]
        out == reduce_tensor_return(k, 1, k.world_size)
    IN  /\ k.pc = "reduce1"
        /\ all_reduce_ready(k.calls)
        /\ SetRank(r, reduce_tensor_call(
                          [k EXCEPT !.prec1 = out.rt, !.acc[1] = 0, !.tensor[1] = 0],
                          2, k.prec5, "reduce5"))

\* prec5 = reduce_tensor(prec5, ...) returns; both meters are updated
\* (logits.size(0) = 1).
reduce_prec5(r) ==
    LET k == drv.ranks[r]
        out == reduce_tensor_return(k, 2, k.world_size)
    IN  /\ k.pc = "reduce5"
        /\ all_reduce_ready(k.calls)
        /\ SetRank(r, [k EXCEPT !.pc = "eval", !.prec5 = out.rt,
                                !.acc[2] = 0, !.tensor[2] = 0,
                                !.prec1_m = update(@, k.prec1, 1),
                                !.prec5_m = update(@, out.rt, 1),
                                !.step = @ + 1])

\* After the loop: local_rank 0 logs Prec1 and Prec5; main returns.
log_result(r) ==
    LET k == drv.ranks[r]
    IN  /\ k.pc = "eval" /\ k.step = drv.n_batches
        /\ SetRank(r, [k EXCEPT !.pc = "done", !.exit_code = 0, !.logged = (r = 0)])

\* ------------------------------------------------------------- configurations
Policies == {"even", "pre_prob", "other"}

ProbEntries == 0..Unit

\* None; the tuples of length 0 .. MaxChoice+1 of non-negative entries that sum to 1
\* or to 1 - 1/Unit; and two tuples that sum to 1 with a negative entry.
PreProbs ==
    {None} \cup
    {Some(t) : t \in {q \in SeqsUpTo(ProbEntries, MaxChoice + 1) :
                          Sum(q) \in {Unit - 1, Unit}}} \cup
    {Some(<<0 - 1, Unit + 1>>), Some(<<Unit + 1, 0 - 1>>)}

\* pre_prob is read under 'pre_prob' only: the other policies get None or one vector.
PreProbsFor(how_to_prob) ==
    IF how_to_prob = "pre_prob" THEN PreProbs ELSE {None, Some(<<Unit>>)}

StaNums == {q \in SeqsUpTo(0..MaxSlots, MaxStages) : Sum(q) <= MaxSlots}

NoCall == [op |-> "none", exc |-> "None", ret |-> <<>>]

InitSampler ==
    /\ self \in UNION {{CreamSupernetTrainingMutator(h, p, c, s) :
                            p \in PreProbsFor(h), c \in 1..MaxChoice, s \in StaNums} :
                         h \in Policies}
    /\ result = NoCall
    /\ tape = <<>>
    /\ rng_draws = 0

IdleSampler ==
    /\ self = CreamSupernetTrainingMutator("even", None, 1, <<>>)
    /\ result = NoCall
    /\ tape = <<>>
    /\ rng_draws = 0

IdleOptimizer ==
    /\ opt_args = CHOOSE a \in OptArgs : a.opt = <<"s", "g", "d", "_">> /\ a.weight_decay = 0 /\ a.lr = 0
                                       /\ ~a.filter_bias_and_bn /\ ~a.has_apex
                                       /\ ~a.cuda_available /\ ~a.assertions
    /\ opt_result = OptRaise("ValueError")

IdleDriver ==
    drv = [tiny |-> FALSE, model_selection |-> 14, train |-> "absent", val |-> "absent",
           world |-> 0, n_batches |-> 0, ranks |-> [r \in {0} |-> error_exit(RankStart)]]

\* No object allocated, no candidate held.
IdleCaller ==
    mem = [heap |-> <<>>, attrs |-> [sta_num |-> 0, pre_prob |-> 0], held |-> <<>>,
           edited |-> 0, edited_at |-> 0]

Init == InitSampler /\ IdleOptimizer /\ IdleDriver /\ IdleCaller

Next == sample_search \/ sample_final

Spec == Init /\ [][Next]_vars

\* The optimizer factory alone, on every argument of OptArgs.
NextOptimizer == call_create_optimizer_supernet

OptimizerInit == IdleSampler /\ InitOptimizer /\ IdleDriver /\ IdleCaller

SpecOptimizer == OptimizerInit /\ [][NextOptimizer]_vars

\* ------------------------------------------------------------- sampler claims
Called == result.op # "none"
Returned == Called /\ result.exc = "None"

\* The prior is a probability vector over the CHOICE_NUM options.
ValidPreProb(s) ==
    /\ ~s.pre_prob.is_none
    /\ Len(s.pre_prob.v) = s.CHOICE_NUM
    /\ \A i \in 1..Len(s.pre_prob.v) : s.pre_prob.v[i] >= 0
    /\ Sum(s.pre_prob.v) = Unit

ValidConfig(s) ==
    \/ s.how_to_prob = "even"
    \/ s.how_to_prob = "pre_prob" /\ ValidPreProb(s)

Interior(cand) == SubSeq(cand, 2, Len(cand) - 1)

WellShaped(cand, sta_num) ==
    /\ Len(cand) = Len(sta_num) + 2
    /\ cand[1] = <<0>>
    /\ cand[Len(cand)] = <<0>>
    /\ \A i \in 1..Len(sta_num) : Len(cand[i + 1]) = sta_num[i]

\* C1: under a valid configuration sample_search returns a candidate of
\* len(sta_num) + 2 stages whose first and last stage are [0] and whose interior
\* stage i has sta_num[i-1] entries.
C1_Shape ==
    (result.op = "sample_search" /\ ValidConfig(self)) =>
        /\ result.exc = "None"
        /\ WellShaped(result.ret, self.sta_num)

C1_Witness ==
    /\ result.op = "sample_search" /\ ValidConfig(self) /\ result.exc = "None"
    /\ Len(self.sta_num) = 2 /\ self.sta_num[1] = 2 /\ self.sta_num[2] = 0
    /\ self.how_to_prob = "pre_prob"

\* C2: every entry of every interior stage of a candidate returned by
\* sample_search, under either policy, is an integer in 0 .. CHOICE_NUM-1.
C2_Range ==
    (result.op = "sample_search" /\ result.exc = "None") =>
        \A i \in 2..(Len(result.ret) - 1) : \A j \in 1..Len(result.ret[i]) :
            result.ret[i][j] \in 0..(self.CHOICE_NUM - 1)

C2_Witness ==
    /\ result.op = "sample_search" /\ result.exc = "None"
    /\ self.how_to_prob = "even" /\ self.CHOICE_NUM = MaxChoice
    /\ \E i \in 2..(Len(result.ret) - 1) : \E j \in 1..Len(result.ret[i]) :
           result.ret[i][j] = self.CHOICE_NUM - 1

\* C3: with a policy string that is neither 'even' nor 'pre_prob', every call of
\* sample_search and of sample_final raises the configuration error, returns no
\* candidate and draws nothing from the generator.
C3_UnknownPolicy ==
    (Called /\ self.how_to_prob \notin {"even", "pre_prob"}) =>
        /\ result.exc = "ValueError"
        /\ result.ret = <<>>
        /\ tape = <<>>
        /\ rng_draws = 0

C3_Witness ==
    /\ result.op = "sample_final" /\ self.how_to_prob = "other"
    /\ result.exc = "ValueError" /\ Sum(self.sta_num) > 0

\* C4: under the weighted policy, a prior whose length differs from CHOICE_NUM or
\* that does not sum to 1 makes sample_search fail with the invalid-distribution
\* error, for every sta_num, the empty one included.
C4_InvalidDistributionFails ==
    (/\ result.op = "sample_search"
     /\ self.how_to_prob = "pre_prob"
     /\ ~self.pre_prob.is_none
     /\ (Len(self.pre_prob.v) # self.CHOICE_NUM \/ Sum(self.pre_prob.v) # Unit)) =>
        result.exc = "ValueError"

\* C5: under the weighted policy with pre_prob None, sample_search fails with the
\* invalid-distribution error and never returns a candidate.
C5_AbsentPriorFails ==
    (/\ result.op = "sample_search"
     /\ self.how_to_prob = "pre_prob"
     /\ self.pre_prob.is_none) =>
        result.exc = "ValueError"

\* C6: sample_final has exactly the outcomes of sample_search: for every
\* configuration (each is the state before the first call) the two have the same
\* set of outcomes (candidate or error, with the words consumed), and every outcome
\* of a sample_final call is one sample_search has on the same words.
C6_FinalDelegates ==
    /\ result.op = "none" => sample_final_outcomes(self) = sample_search_outcomes(self)
    /\ result.op = "sample_final" =>
          [exc |-> result.exc, ret |-> result.ret, used |-> tape]
              \in sample_search_outcomes(self)

C6_Witness ==
    /\ result.op = "sample_final" /\ result.exc = "None"
    /\ \E i \in 2..(Len(result.ret) - 1) : \E j \in 1..Len(result.ret[i]) :
           result.ret[i][j] > 0

\* C7: no call of sample_search or sample_final, returning or raising, changes
\* how_to_prob, pre_prob, CHOICE_NUM or sta_num.
C7_ConfigUnchanged == [][self' = self]_vars

C7_Witness ==
    /\ result.op = "sample_final" /\ result.exc = "None"
    /\ rng_draws > Len(tape) /\ tape # <<>>

\* The candidates sample_search can return under configuration s.
Outcomes(s) == {o.ret : o \in {q \in sample_search_outcomes(s) : q.exc = "None"}}

C11_UnknownPolicyRejectedAtConstruction ==
    result.op = "sample_search" => self.how_to_prob \in {"even", "pre_prob"}

\* ------------------------------------------------------------- objects
MaxHeld  == 2       \* candidates the caller keeps

\* A list or tuple object: a list of ints, or a list of references to objects.
\* A reference is the position of the object in mem.heap.
Ints(items) == [kind |-> "ints", items |-> items]
Refs(items) == [kind |-> "refs", items |-> items]

\* A list display or a call that builds a list: a new object.
new_list_interned(heap, obj) ==
    IF \E ref \in 1..Len(heap) : heap[ref] = obj
    THEN [heap |-> heap, ref |-> CHOOSE ref \in 1..Len(heap) : heap[ref] = obj]
    ELSE [heap |-> Append(heap, obj), ref |-> Len(heap) + 1]

new_list(heap, obj) == [heap |-> Append(heap, obj), ref |-> Len(heap) + 1]

\* __init__ binds self.sta_num and self.pre_prob to the objects it is given
\* (reference 0: None).
construct(s) ==
    LET sta == new_list(<<>>, Ints(s.sta_num))
        pre == IF s.pre_prob.is_none THEN [heap |-> sta.heap, ref |-> 0]
               ELSE new_list(sta.heap, Ints(s.pre_prob.v))
    IN  [heap |-> pre.heap, attrs |-> [sta_num |-> sta.ref, pre_prob |-> pre.ref],
         held |-> <<>>, edited |-> 0, edited_at |-> 0]

\* The attributes of self as a call reads them: through its references.
SelfOf(s, m) ==
    [s EXCEPT !.sta_num = m.heap[m.attrs.sta_num].items,
              !.pre_prob = IF m.attrs.pre_prob = 0 THEN None
                           ELSE Some(m.heap[m.attrs.pre_prob].items)]

\* The list comprehension: a new outer list, and .tolist() appends a new list for
\* each stage, from stage i on.
RECURSIVE tolist_each(_, _, _, _)
tolist_each(heap, outer, stages, i) ==
    IF i > Len(stages) THEN heap
    ELSE LET stage == new_list(heap, Ints(stages[i]))
         IN  tolist_each([stage.heap EXCEPT ![outer].items = Append(@, stage.ref)],
                         outer, stages, i + 1)

\* The objects of sample_search when the draws give `stages`: the comprehension,
\* insert(0, [0]), append([0]); the reference it returns.
sample_search_objects(heap, stages) ==
    LET outer == new_list(heap, Refs(<<>>))
        drawn == tolist_each(outer.heap, outer.ref, stages, 1)
        first == new_list(drawn, Ints(<<0>>))
        inserted == [first.heap EXCEPT ![outer.ref].items = <<first.ref>> \o @]
        last == new_list(inserted, Ints(<<0>>))
        appended == [last.heap EXCEPT ![outer.ref].items = Append(@, last.ref)]
    IN  [heap |-> appended, ref |-> outer.ref]

\* cand = mutator.sample_search(): the caller keeps the reference returned.
caller_sample_search ==
    /\ Len(mem.held) < MaxHeld
    /\ \E out \in sample_search_outcomes(SelfOf(self, mem)) :
          /\ Call("sample_search", out)
          /\ mem' = IF out.exc # "None" THEN mem
                    ELSE LET got == sample_search_objects(
                                        mem.heap, SubSeq(out.ret, 2, Len(out.ret) - 1))
                         IN  [mem EXCEPT !.heap = got.heap, !.held = Append(@, got.ref)]
    /\ UNCHANGED <<optVars, drv>>

\* A statement of the caller on the candidate number c it holds: it edits one
\* candidate in a run, once (edited: which one, 0 before; edited_at: how many
\* candidates it held then).
Edit(c, heap) ==
    /\ mem.edited = 0
    /\ mem' = [mem EXCEPT !.heap = heap, !.edited = c, !.edited_at = Len(mem.held)]
    /\ UNCHANGED <<samplerVars, optVars, drv>>

\* cand[i][j] = cand[i][j] + 1
caller_setitem ==
    \E c \in 1..Len(mem.held) :
        \E i \in 1..Len(mem.heap[mem.held[c]].items) :
            LET stage == mem.heap[mem.held[c]].items[i]
            IN  \E j \in 1..Len(mem.heap[stage].items) :
                    Edit(c, [mem.heap EXCEPT ![stage].items[j] = @ + 1])

\* cand[i].append(0)
caller_append ==
    \E c \in 1..Len(mem.held) :
        \E i \in 1..Len(mem.heap[mem.held[c]].items) :
            LET stage == mem.heap[mem.held[c]].items[i]
            IN  Edit(c, [mem.heap EXCEPT ![stage].items = Append(@, 0)])

\* cand.pop()
caller_pop ==
    \E c \in 1..Len(mem.held) :
        LET outer == mem.held[c]
        IN  /\ mem.heap[outer].items # <<>>
            /\ Edit(c, [mem.heap EXCEPT
                          ![outer].items = SubSeq(@, 1, Len(@) - 1)])

\* A training loop: a sampler of MaxChoice operators under either policy (the
\* weighted one with every operator possible), calls of sample_search, and a
\* caller that keeps and edits what they return.
CallerPreProb == [k \in 1..MaxChoice |-> IF k = 1 THEN Unit - (MaxChoice - 1) ELSE 1]

InitCaller ==
    /\ self \in {CreamSupernetTrainingMutator("even", None, MaxChoice, s) : s \in StaNums}
               \cup {CreamSupernetTrainingMutator("pre_prob", Some(CallerPreProb), MaxChoice, s) :
                         s \in StaNums}
    /\ ValidConfig(self)
    /\ result = NoCall
    /\ tape = <<>>
    /\ rng_draws = 0
    /\ mem = construct(self)

CallerInit == InitCaller /\ IdleOptimizer /\ IdleDriver

NextCaller == caller_sample_search \/ caller_setitem \/ caller_append \/ caller_pop

SpecCaller == CallerInit /\ [][NextCaller]_vars

\* The candidate behind a reference: the stages, each the list of its entries.
Deref(heap, ref) ==
    [i \in 1..Len(heap[ref].items) |-> heap[heap[ref].items[i]].items]

\* The objects of a candidate: the outer list and the lists it refers to.
ObjectsOf(heap, ref) == {ref} \cup {heap[ref].items[i] : i \in 1..Len(heap[ref].items)}

\* C12: every sample_search call returns a fresh candidate owned by the caller.
\* The outer list, the two sentinel stages and the interior stages are objects of
\* no other candidate and are not the sampler's sta_num or pre_prob, and what the
\* call returns is what the reference leads to; a statement of the caller that
\* mutates one candidate changes no other candidate it holds, no attribute of the
\* sampler, and not the outcomes of a later call.
C12_FreshCandidate ==
    /\ [](\A c \in 1..Len(mem.held) :
            /\ ObjectsOf(mem.heap, mem.held[c])
                  \cap {mem.attrs.sta_num, mem.attrs.pre_prob} = {}
            /\ \A d \in 1..Len(mem.held) :
                  d # c => ObjectsOf(mem.heap, mem.held[c])
                              \cap ObjectsOf(mem.heap, mem.held[d]) = {}
            /\ (c > mem.edited_at /\ c = Len(mem.held) /\ result.exc = "None") =>
                  Deref(mem.heap, mem.held[c]) = result.ret)
    /\ [][(mem.edited = 0 /\ mem'.edited # 0) =>
            /\ \A d \in 1..Len(mem.held) :
                  d # mem'.edited =>
                      Deref(mem'.heap, mem.held[d]) = Deref(mem.heap, mem.held[d])
            /\ SelfOf(self', mem') = SelfOf(self, mem)
            /\ sample_search_outcomes(SelfOf(self', mem'))
                  = sample_search_outcomes(SelfOf(self, mem))]_vars

\* MaxHeld candidates are held, the first was edited before the last call, and the
\* last is as it was returned.
C12_Witness ==
    /\ Len(mem.held) = MaxHeld /\ mem.edited = 1 /\ mem.edited_at = MaxHeld - 1
    /\ result.exc = "None" /\ Sum(self.sta_num) > 0
    /\ Deref(mem.heap, mem.held[MaxHeld]) = result.ret
    /\ WellShaped(Deref(mem.heap, mem.held[MaxHeld]), self.sta_num)
    /\ ~WellShaped(Deref(mem.heap, mem.held[1]), self.sta_num)

\* The evaluation driver alone: every process of a launch runs main.
NextDriver ==
    \/ \E r \in Ranks : setup_distributed(r)
    \/ \E r \in Ranks : select_model(r)
    \/ \E r \in Ranks : dataset_section(r)
    \/ \E r \in Ranks : eval_forward(r)
    \/ \E r \in Ranks : reduce_prec1(r)
    \/ \E r \in Ranks : reduce_prec5(r)
    \/ \E r \in Ranks : log_result(r)

DriverInit == IdleSampler /\ IdleOptimizer /\ InitDriver /\ IdleCaller

SpecDriver == DriverInit /\ [][NextDriver]_vars

\* ------------------------------------------------------------- optimizer claims
Recognised == {<<"s", "g", "d">>, <<"n", "e", "s", "t", "e", "r", "o", "v">>, <<"m", "o", "m", "e", "n", "t", "u", "m">>, <<"a", "d", "a", "m">>}

LastComponent(str) == LET parts == split(lower(str), "_") IN parts[Len(parts)]

\* C9: a name whose last underscore-separated component is not sgd, nesterov,
\* momentum or adam makes create_optimizer_supernet raise ValueError and return no
\* optimizer; a name whose last component is one of the four returns an optimizer
\* and raises nothing.
C9_InvalidOptimizerValueError ==
    (opt_result.called /\ opt_args.lr # 0) =>
        IF LastComponent(opt_args.opt) \in Recognised
        THEN opt_result.exc = "None" /\ opt_result.ret # NoOptimizer
        ELSE opt_result.exc = "ValueError" /\ opt_result.ret = NoOptimizer

\* ------------------------------------------------------------- driver claims
Missing == drv.train = "absent" \/ drv.val = "absent"

\* C8: when the train or the val directory under --data is missing, no process of
\* the run gets past the dataset section: there it logs an error and exits with
\* code 1, and no forward pass, metric reduction or accuracy log happens.
C8_MissingDatasetExits ==
    Missing =>
        \A r \in Ranks :
            LET k == drv.ranks[r]
            IN  /\ k.pc \in {"start", "select", "data", "crash", "exit"}
                /\ k.pc = "exit" => (k.exit_code = 1 /\ k.errors > 0)
                /\ k.forwards = 0 /\ k.calls = 0 /\ ~k.logged
                /\ k.prec1_m.count = 0 /\ k.prec5_m.count = 0

C8_Witness ==
    /\ ~drv.tiny /\ drv.train = "absent" /\ drv.val = "dir" /\ drv.world = MaxWorld
    /\ \A r \in Ranks : /\ drv.ranks[r].pc = "exit" /\ drv.ranks[r].model
                         /\ drv.ranks[r].exit_code = 1 /\ drv.ranks[r].errors = 1

\* The sum over the ranks of what accuracy returned as metric i, divided by the
\* number of ranks.
RankMean(i) ==
    LET RECURSIVE total(_)
        total(q) == IF q \notin Ranks THEN 0 ELSE drv.ranks[q].acc[i] + total(q + 1)
    IN  total(0) \div Cardinality(Ranks)

\* C13: in every iteration of the evaluation loop both reduce_tensor calls return,
\* on every rank, the sum over all ranks of that iteration's metric divided by
\* world_size, with their argument unchanged: the first rank to return gets the
\* mean of what accuracy returned on the ranks, every later one what the earlier
\* ones got.  A rank updates its meters for an iteration only after every rank has
\* entered both collectives of it; ranks that completed as many iterations have
\* the same meters, and only local_rank 0 logs.
C13_ReduceTensorMean ==
    /\ [](\A r \in Ranks :
            LET k == drv.ranks[r]
            IN  /\ k.pc = "crash" => k.forwards = 0
                /\ k.prec1_m.count = k.step /\ k.prec5_m.count = k.step
                /\ k.logged => (r = 0 /\ k.pc = "done")
                /\ (k.pc = "done" /\ r = 0) => k.logged
                /\ \A q \in Ranks :
                      /\ drv.ranks[q].calls >= 2 * k.step
                      /\ drv.ranks[q].step = k.step =>
                            /\ k.prec1_m = drv.ranks[q].prec1_m
                            /\ k.prec5_m = drv.ranks[q].prec5_m)
    /\ [][\A r \in Ranks :
            LET k == drv.ranks[r]
                k2 == drv'.ranks[r]
                back1 == {q \in Ranks : drv.ranks[q].pc = "reduce5"}
                back5 == {q \in Ranks : drv.ranks[q].step > k.step}
            IN  /\ (k.pc = "reduce1" /\ k2.pc # "reduce1") =>
                      /\ k2.pc = "reduce5"
                      /\ reduce_tensor_return(k, 1, k.world_size).tensor = k.acc[1]
                      /\ back1 = {} => k2.prec1 = RankMean(1)
                      /\ \A q \in back1 : k2.prec1 = drv.ranks[q].prec1
                /\ (k.pc = "reduce5" /\ k2.pc # "reduce5") =>
                      /\ k2.pc = "eval"
                      /\ reduce_tensor_return(k, 2, k.world_size).tensor = k.acc[2]
                      /\ back5 = {} => k2.prec5 = RankMean(2)
                      /\ k2.prec1_m = update(k.prec1_m, k.prec1, 1)
                      /\ k2.prec5_m = update(k.prec5_m, k2.prec5, 1)
                      /\ \A q \in back5 : /\ k2.prec1_m = drv.ranks[q].prec1_m
                                            /\ k2.prec5_m = drv.ranks[q].prec5_m]_vars

\* CHOICE_NUM of the sampler by default: the operators a slot chooses from.
DefaultChoiceNum == 6

\* arch_list is a candidate for arch_def: stage by stage as long as arch_def, [0]
\* first and last, every entry a choice index.
WellFormedArch(a) ==
    /\ Len(a.arch_list) = Len(a.arch_def_len)
    /\ \A i \in 1..Len(a.arch_list) :
          /\ Len(a.arch_list[i]) = a.arch_def_len[i]
          /\ \A j \in 1..Len(a.arch_list[i]) :
                a.arch_list[i][j] \in 0..(DefaultChoiceNum - 1)
    /\ a.arch_list[1] = <<0>>
    /\ a.arch_list[Len(a.arch_list)] = <<0>>

\* C14: the table has the entries 470, 42, 14, 112, 285 and 600, each with an
\* arch_list that is a well-formed candidate for its arch_def (the table is the
\* same in every state: it is examined where main starts); a process builds the
\* model from the entry of its model_selection only, and with a model_selection
\* outside the table it never gets to build one.
C14_ArchTableWellFormed ==
    /\ (\A r \in Ranks : drv.ranks[r].pc = "start") =>
          /\ DOMAIN ArchTable = {470, 42, 14, 112, 285, 600}
          /\ \A ms \in DOMAIN ArchTable : WellFormedArch(ArchTable[ms])
    /\ \A r \in Ranks :
          LET k == drv.ranks[r]
          IN  /\ k.model =>
                    /\ drv.model_selection \in DOMAIN ArchTable
                    /\ k.arch = ArchTable[drv.model_selection]
              /\ drv.model_selection \notin DOMAIN ArchTable =>
                    /\ ~k.model /\ k.arch = NoArch
                    /\ k.pc \in {"start", "select", "crash"}

C14_Witness ==
    /\ drv.model_selection = 600 /\ drv.world = MaxWorld
    /\ \A r \in Ranks : drv.ranks[r].model /\ drv.ranks[r].arch = ArchTable[600]

=============================================================================
